---- MODULE Spec2Model ----
(***************************************************************************)
(* The asynchronous transcoding pipeline of the Youtube clone:             *)
(*   - the Firebase Functions API and storage trigger (job dispatcher),    *)
(*   - the Pub/Sub topic with its push subscription (job queue),           *)
(*   - the Cloud Run video processor (transcode worker),                   *)
(*   - the Firestore `videos` collection and the Cloud Storage buckets.    *)
(*                                                                         *)
(* Strings that the code takes apart (paths, object names, the bearer      *)
(* header) are sequences of tokens, so that startsWith, replace, the       *)
(* id-parsing regular expression and the template literals are computed.   *)
(* Every `await` of a handler is a point where other handlers may run: a   *)
(* handler is a process whose steps each end at one awaited call.          *)
(* Server timestamps (createdAt, updatedAt) carry no value in the model,    *)
(* and Date.now() in a local file name is the token "<now>": the files of  *)
(* an invocation are kept with the invocation.                             *)
(***************************************************************************)
EXTENDS Integers, Sequences, FiniteSets, Bags, TLC

\* ------------------------------------------------------------ bounds
\* Dispatcher invocations (POST /videos/:id/process and finalize events).
MaxRequests == 2
\* Deliveries to the worker endpoint (POST /process-video).
MaxDeliveries == 2

\* ------------------------------------------------------------ configuration
\* process.env of the Firebase Functions deployment.
rawBucket == "raw-videos"
processedVideosBucket == "processed-videos"
processingTopic == "video-processing-jobs"
\* process.env of the worker: chosen once, at start-up.
Configs ==
  { [jobToken |-> <<"s3cret">>, outputBucket |-> ""] }

renditionHeights == <<360, 720>>

\* ------------------------------------------------------------ strings
Undefined == "undefined"

StartsWith(s, p) == Len(s) >= Len(p) /\ SubSeq(s, 1, Len(p)) = p

\* Positions at which p occurs in s.
Occurrences(s, p) ==
  {i \in 1..(Len(s) - Len(p) + 1) : SubSeq(s, i, i + Len(p) - 1) = p}

Min(S) == CHOOSE x \in S : \A y \in S : x <= y

\* String.prototype.replace with a string pattern: the first occurrence only.
Replace(s, p, r) ==
  IF Occurrences(s, p) = {} THEN s
  ELSE LET i == Min(Occurrences(s, p))
       IN SubSeq(s, 1, i - 1) \o r \o SubSeq(s, i + Len(p), Len(s))

GsPrefix(bucket) == <<"gs://", bucket, "/">>
GsPath(bucket, object) == GsPrefix(bucket) \o object
PublicUrl(bucket, object) ==
  <<"https://storage.googleapis.com/", bucket, "/">> \o object

\* filename.replace(/[^a-zA-Z0-9_.-]/g, '_'): a token is a run of safe
\* characters, or one unsafe character.
UnsafeTokens == {" ", "/", "#"}
safeFilename(filename) ==
  [i \in 1..Len(filename) |->
     IF filename[i] \in UnsafeTokens THEN "_" ELSE filename[i]]

\* name.match(/^raw\/([^/]+?)-/)?.[1]: the shortest non-empty run without a
\* slash between the leading "raw/" and a hyphen.
SlashTokens == {"/", "raw/", "processed/", "thumbs/"}

RECURSIVE Join(_)
Join(s) == IF s = <<>> THEN "" ELSE Head(s) \o Join(Tail(s))

LazyIdEnd(name) ==
  {j \in 3..Len(name) :
     /\ name[j] = "-"
     /\ \A k \in 2..(j - 1) : name[k] \notin SlashTokens}

parseVideoIdFromRawObject(name) ==
  IF Len(name) >= 1 /\ name[1] = "raw/" /\ LazyIdEnd(name) # {}
  THEN LET j == Min(LazyIdEnd(name))
       IN Join(SubSeq(name, 2, j - 1))
  ELSE Undefined

\* ------------------------------------------------------------ inputs
VideoIds == {"v1"}
ForeignId == "v9"
Titles == {"Beach day"}
Filenames == {<<"beach", "-", "day", " ", "1.mp4">>}
Users == {"alice"}

ObjectPath(id, filename) == <<"raw/", id, "-">> \o safeFilename(filename)

\* A bucket other than the raw bucket, named by a job that another
\* publisher put on the topic.
ArchiveBucket == "archive"

\* Objects already in the raw bucket, put there by other writers.
StrayObjects ==
  { <<rawBucket, <<"raw/", "v1", "-", "other.mp4">>>>,
    <<rawBucket, <<"raw/", "clip.mp4">>>>,
    <<ArchiveBucket, <<"raw/", "v1", "-", "old.mp4">>>> }

\* path.basename: what follows the last slash.
Basename(object) ==
  LET cut == {i \in 1..Len(object) : object[i] \in SlashTokens}
  IN IF cut = {} THEN object
     ELSE SubSeq(object, (CHOOSE i \in cut : \A j \in cut : j <= i) + 1, Len(object))

AuthHeaders == { <<>>, <<"Bearer ", "s3cret">>, <<"Bearer ", "guess">> }

\* ------------------------------------------------------------ Firestore
MapFields == {"renditions"}

MergeFlat(old, new) ==
  [k \in DOMAIN old \cup DOMAIN new |->
     IF k \in DOMAIN new THEN new[k] ELSE old[k]]

\* A nested map is merged entry by entry, and each entry field by field.
MergeMap(old, new) ==
  [k \in DOMAIN old \cup DOMAIN new |->
     IF k \in DOMAIN new
     THEN IF k \in DOMAIN old THEN MergeFlat(old[k], new[k]) ELSE new[k]
     ELSE old[k]]

\* A faulty variant: set without merge, the document becomes the values given.
MergeDocOverwrite(old, values) == values

\* DocumentReference.set(values, {merge: true}) on the stored fields `old`.
MergeDoc(old, values) ==
  [k \in DOMAIN old \cup DOMAIN values |->
     IF k \in DOMAIN values
     THEN IF k \in DOMAIN old /\ k \in MapFields
          THEN MergeMap(old[k], values[k])
          ELSE values[k]
     ELSE old[k]]

EmptyDoc == [k \in {} |-> Undefined]

VARIABLES
  cfg,        \* the worker's environment
  videos,     \* Firestore: document id -> fields
  objects,    \* Cloud Storage: set of <<bucket, object name>>
  queue,      \* Pub/Sub: bag of the messages not yet acknowledged
  disp,       \* bag of the dispatcher invocations in progress
  work,       \* bag of the worker invocations in progress
  leaked,     \* local files left in os.tmpdir() by invocations that returned
  out,        \* the last response sent or line logged
  nReq,       \* dispatcher invocations started
  nDeliv      \* worker invocations started

vars == <<cfg, videos, objects, queue, disp, work, leaked, out, nReq, nDeliv>>

DocOf(id) == IF id \in DOMAIN videos THEN videos[id] ELSE EmptyDoc
Field(doc, k) == IF k \in DOMAIN doc THEN doc[k] ELSE Undefined
Status(id) == Field(DocOf(id), "status")

SetMerge(id, values) ==
  [d \in DOMAIN videos \cup {id} |->
     IF d = id THEN MergeDoc(DocOf(id), values) ELSE videos[d]]

\* ------------------------------------------------------------ slots
\* Invocations that one instance handles at a time.
Dispatchers == {1, 2}
Workers == {1, 2}

Running(bag, x) == x \in BagToSet(bag)
Started(bag, x) == bag (+) SetToBag({x})
Ended(bag, x) == bag (-) SetToBag({x})
Stepped(bag, x, y) == (bag (-) SetToBag({x})) (+) SetToBag({y})

NoBody == [k \in {} |-> Undefined]

NewWork ==
  [pc |-> "new", body |-> NoBody, target |-> "", h |-> 0,
   renditions |-> [k \in {} |-> Undefined], localOutputs |-> <<>>,
   files |-> {}, message |-> ""]

Response(op, status, text) == [op |-> op, status |-> status, text |-> text]

Init ==
  /\ cfg \in Configs
  /\ videos = [d \in {} |-> EmptyDoc]
  /\ objects = StrayObjects
  /\ queue = EmptyBag
  /\ disp = EmptyBag
  /\ work = EmptyBag
  /\ leaked = {}
  /\ out = Response("none", 0, "")
  /\ nReq = 0
  /\ nDeliv = 0

\* ------------------------------------------------------------ upload intent
\* POST /videos: a fresh document in `uploading`, and a signed upload URL.
CreateVideo(id, title, filename, user) ==
  /\ rawBucket # ""
  /\ id \notin DOMAIN videos
  /\ videos' = [d \in DOMAIN videos \cup {id} |->
       IF d = id
       THEN [title |-> title, description |-> "",
             rawPath |-> GsPath(rawBucket, ObjectPath(id, filename)),
             status |-> "uploading", uploadedBy |-> user]
       ELSE videos[d]]
  /\ out' = Response("create", 201, id)
  /\ UNCHANGED <<cfg, objects, queue, disp, work, leaked, nReq, nDeliv>>

\* The client PUTs the file to the signed URL of a created video.
ClientUpload(id, filename) ==
  /\ id \in DOMAIN videos
  /\ <<rawBucket, ObjectPath(id, filename)>> \notin objects
  /\ objects' = objects \cup {<<rawBucket, ObjectPath(id, filename)>>}
  /\ UNCHANGED <<cfg, videos, queue, disp, work, leaked, out, nReq, nDeliv>>

\* ------------------------------------------------------------ job dispatcher
IdTokens == {"", "valid", "forged"}

\* requireAuth: the response it sends, or 0 when it calls next().
requireAuth(token) ==
  IF token = "" THEN 401 ELSE IF token # "valid" THEN 401 ELSE 0

\* JSON.stringify of the job payload: an undefined member is left out.
JobPayload(videoId, inputBucket, inputObject) ==
  IF processedVideosBucket = ""
  THEN [videoId |-> videoId, inputBucket |-> inputBucket,
        inputObject |-> inputObject]
  ELSE [videoId |-> videoId, inputBucket |-> inputBucket,
        inputObject |-> inputObject, outputBucket |-> processedVideosBucket]

\* A faulty variant: the outcome of publishMessage is not looked at.
PublishedAlways(ok) == TRUE

\* publishProcessingJob returns: the topic is configured and publishMessage
\* resolves (ok).
Published(ok) == ok /\ processingTopic # ""

\* What the caller of the HTTP handler gets when the promise of the async
\* handler rejects: the error middleware's 500 where Express passes the
\* rejection on to it (Express 5), no answer from the application where it
\* does not (Express 4). The version in use is not part of the sources.
RejectionOutcomes ==
  { Response("process", 500, "publish failed"),
    Response("process", 0, "unhandled rejection") }

\* publishProcessingJob, and what the caller does with its outcome: the
\* HTTP handler answers 200 or lets the error reach the error middleware,
\* the trigger logs either way.
publishProcessingJob(d, ok) ==
  /\ Running(disp, d)
  /\ d.pc = "publish"
  /\ IF Published(ok)
     THEN /\ queue' = queue (+) SetToBag({JobPayload(d.videoId, d.bucket, d.name)})
          /\ out' = IF d.kind = "process"
                    THEN Response("process", 200, "queued")
                    ELSE Response("finalize", 0,
                           "Queued processing job from storage finalize event")
     ELSE /\ UNCHANGED queue
          /\ IF d.kind = "process"
             THEN out' \in RejectionOutcomes
             ELSE out' = Response("finalize", 0,
                           "Failed to queue job from storage finalize")
  /\ disp' = Ended(disp, d)
  /\ UNCHANGED <<cfg, videos, objects, work, leaked, nReq, nDeliv>>

\* A faulty variant: the rawPath is not tested for its bucket.
ProcessPreconditionAnyBucket(videoId) ==
  IF videoId \notin DOMAIN videos THEN 404
  ELSE IF "rawPath" \notin DOMAIN videos[videoId] THEN 400
  ELSE IF videos[videoId].rawPath = <<>> THEN 400 ELSE 0

\* A faulty variant: the snapshot is not tested for existence.
ProcessPreconditionNoExists(videoId) ==
  LET doc == DocOf(videoId)
  IN IF "rawPath" \notin DOMAIN doc THEN 400
     ELSE IF doc.rawPath = <<>> \/ ~StartsWith(doc.rawPath, GsPrefix(rawBucket))
          THEN 400 ELSE 0

\* The response of POST /videos/:videoId/process decided by the snapshot,
\* or 0 when the handler goes on to queue the video.
ProcessPrecondition(videoId) ==
  IF videoId \notin DOMAIN videos THEN 404
  ELSE LET rawPath == Field(videos[videoId], "rawPath")
       IN IF "rawPath" \notin DOMAIN videos[videoId] THEN 400
          ELSE IF rawPath = <<>> \/ ~StartsWith(rawPath, GsPrefix(rawBucket))
               THEN 400 ELSE 0

\* A faulty variant: only the scheme is stripped from the rawPath.
objectPathKeepsBucket(rawPath) == Replace(rawPath, <<"gs://">>, <<>>)

\* rawPath.replace(`gs://${rawBucket}/`, '')
objectPath(rawPath) == Replace(rawPath, GsPrefix(rawBucket), <<>>)

\* The response with which POST /videos/:videoId/process ends before it
\* writes, or 0.
ProcessRejection(videoId, token) ==
  IF requireAuth(token) # 0 THEN requireAuth(token)
  ELSE IF rawBucket = "" THEN 500
  ELSE ProcessPrecondition(videoId)

\* POST /videos/:videoId/process up to the answer of videoRef.get().
ProcessStart(videoId, token) ==
  /\ nReq < MaxRequests
  /\ BagCardinality(disp) < Cardinality(Dispatchers)
  /\ nReq' = nReq + 1
  /\ IF ProcessRejection(videoId, token) # 0
     THEN /\ out' = Response("process", ProcessRejection(videoId, token), videoId)
          /\ UNCHANGED disp
     ELSE /\ disp' = Started(disp,
               [pc |-> "merge", kind |-> "process", videoId |-> videoId,
                bucket |-> rawBucket,
                name |-> objectPath(videos[videoId].rawPath)])
          /\ UNCHANGED out
  /\ UNCHANGED <<cfg, videos, objects, queue, work, leaked, nDeliv>>

\* A faulty variant: the merge before the publish writes no status.
QueuedValuesNoStatus == [k \in {} |-> Undefined]

\* The fields merged before the publish.
QueuedValues == [status |-> "queued"]

\* videoRef.set({status: 'queued', updatedAt}, {merge: true}), either handler.
QueuedMerge(d) ==
  /\ Running(disp, d)
  /\ d.pc = "merge"
  /\ videos' = SetMerge(d.videoId, QueuedValues)
  /\ disp' = Stepped(disp, d, [d EXCEPT !.pc = "publish"])
  /\ UNCHANGED <<cfg, objects, queue, work, leaked, out, nReq, nDeliv>>

DuplicateStatuses == {"queued", "processing", "ready"}

\* A faulty variant: a finalize notification for a ready video queues it again.
IsDuplicateFinalizeNotReady(videoId) == Status(videoId) \in {"queued", "processing"}

\* A faulty variant: a failed video is not queued again by a finalize notification.
IsDuplicateFinalizeOrFailed(videoId) ==
  Status(videoId) \in DuplicateStatuses \cup {"failed"}

\* currentStatus === 'queued' || 'processing' || 'ready'
IsDuplicateFinalize(videoId) == Status(videoId) \in DuplicateStatuses

\* onRawVideoUploaded from the answer of videoRef.get() to the decision.
\* `rest` is the bag of the other invocations in progress.
FinalizeDecide(rest, videoId, bucket, name) ==
  IF videoId \notin DOMAIN videos
  THEN /\ disp' = rest
       /\ out' = Response("finalize", 0,
                   "Video document missing during storage finalize")
  ELSE IF IsDuplicateFinalize(videoId)
  THEN /\ disp' = rest
       /\ out' = Response("finalize", 0, "duplicate")
  ELSE /\ disp' = Started(rest,
            [pc |-> "merge", kind |-> "finalize", videoId |-> videoId,
             bucket |-> bucket, name |-> name])
       /\ UNCHANGED out

\* A faulty variant: the query has no where clause.
QueryAnyRecord(rawPath) == DOMAIN videos

\* The documents the rawPath query can return first.
QueryByRawPath(rawPath) ==
  {id \in DOMAIN videos :
     "rawPath" \in DOMAIN videos[id] /\ videos[id].rawPath = rawPath}

\* onRawVideoUploaded for the finalize event of an object, up to the answer
\* of its first read: the document, or the rawPath query.
FinalizeStart(obj) ==
  /\ nReq < MaxRequests
  /\ BagCardinality(disp) < Cardinality(Dispatchers)
  /\ obj \in objects
  /\ nReq' = nReq + 1
  /\ LET bucket == obj[1]
         name == obj[2]
         videoId == parseVideoIdFromRawObject(name)
     IN IF rawBucket = "" \/ bucket = "" \/ name = <<>> \/ bucket # rawBucket
           \/ ~StartsWith(name, <<"raw/">>)
        THEN /\ out' = Response("finalize", 0, "ignored")
             /\ UNCHANGED disp
        ELSE IF videoId # Undefined
        THEN FinalizeDecide(disp, videoId, bucket, name)
        ELSE IF QueryByRawPath(GsPath(bucket, name)) = {}
        THEN /\ out' = Response("finalize", 0,
                         "No video metadata found for uploaded object")
             /\ UNCHANGED disp
        ELSE /\ \E id \in QueryByRawPath(GsPath(bucket, name)) :
                  disp' = Started(disp,
                    [pc |-> "get", kind |-> "finalize", videoId |-> id,
                     bucket |-> bucket, name |-> name])
             /\ UNCHANGED out
  /\ UNCHANGED <<cfg, videos, objects, queue, work, leaked, nDeliv>>

\* videoRef.get() after the rawPath query found the id.
FinalizeGet(d) ==
  /\ Running(disp, d)
  /\ d.pc = "get"
  /\ FinalizeDecide(Ended(disp, d), d.videoId, d.bucket, d.name)
  /\ UNCHANGED <<cfg, videos, objects, queue, work, leaked, nReq, nDeliv>>

\* ------------------------------------------------------------ transcode worker
\* Request bodies that reach POST /process-video from elsewhere than the topic.
ExternalBodies ==
  { NoBody,
    [data |-> [videoId |-> "v1", inputBucket |-> rawBucket]],
    [data |-> [videoId |-> "v1", inputBucket |-> rawBucket, inputObject |-> <<>>]],
    [data |-> [videoId |-> ForeignId, inputBucket |-> rawBucket,
               inputObject |-> <<"raw/", "clip.mp4">>]],
    [data |-> [videoId |-> ForeignId, inputBucket |-> rawBucket,
               inputObject |-> <<"raw/", "clip.mp4">>,
               outputBucket |-> processedVideosBucket]],
    [data |-> [videoId |-> "v1", inputBucket |-> ArchiveBucket,
               inputObject |-> <<"raw/", "v1", "-", "old.mp4">>,
               outputBucket |-> ArchiveBucket]] }

Falsy(p, k) ==
  k \notin DOMAIN p \/ p[k] = (IF k = "inputObject" THEN <<>> ELSE "")

\* parsePubSubPayload: the message of the error it throws, "" when it returns.
ParseError(body) ==
  IF "data" \notin DOMAIN body THEN "Missing Pub/Sub message data"
  ELSE IF Falsy(body.data, "videoId") \/ Falsy(body.data, "inputBucket")
          \/ Falsy(body.data, "inputObject")
       THEN "Job payload is missing required fields"
       ELSE ""

parsePubSubPayload(body) == body.data

\* A faulty variant: the catch block reads videoId off the body without validating it.
maybeVideoIdUnvalidated(body) ==
  IF "data" \in DOMAIN body /\ ~Falsy(body.data, "videoId")
  THEN body.data.videoId ELSE Undefined

\* The catch block's second parse of the same body.
maybeVideoId(body) ==
  IF ParseError(body) = "" THEN parsePubSubPayload(body).videoId ELSE Undefined

updateVideoStatus(videoId, values) == SetMerge(videoId, values)

Label(height) == ToString(height) \o "p"
outputObject(videoId, height) ==
  <<"processed/", videoId, "/", Label(height), ".mp4">>
localInputPath(inputObject) == <<"raw-", "<now>", "-">> \o Basename(inputObject)
localOutputPath(videoId, height) ==
  <<"processed-", videoId, "-", Label(height), "-", "<now>", ".mp4">>

\* A faulty variant: the rendition records the name of the local output file.
RenditionInfoLocal(target, videoId, height) ==
  [path |-> GsPath(target, localOutputPath(videoId, height)),
   playbackUrl |-> PublicUrl(target, localOutputPath(videoId, height)),
   height |-> height]

RenditionInfo(target, videoId, height) ==
  [path |-> GsPath(target, outputObject(videoId, height)),
   playbackUrl |-> PublicUrl(target, outputObject(videoId, height)),
   height |-> height]

\* A faulty variant: the lowest rendition is preferred.
BestLowest(renditions, f) ==
  IF "360p" \in DOMAIN renditions THEN renditions["360p"][f]
  ELSE IF "720p" \in DOMAIN renditions THEN renditions["720p"][f]
  ELSE Undefined

\* renditions['720p']?.f || renditions['360p']?.f
Best(renditions, f) ==
  IF "720p" \in DOMAIN renditions THEN renditions["720p"][f]
  ELSE IF "360p" \in DOMAIN renditions THEN renditions["360p"][f]
  ELSE Undefined

\* A faulty variant: the catch block records the error and forgets the status.
FailedValuesNoStatus(renditions, message) == [error |-> message]

\* A faulty variant: the catch block commits the renditions uploaded so far.
FailedValuesPartial(renditions, message) ==
  [status |-> "failed", error |-> message, renditions |-> renditions]

\* The fields the catch block merges; `renditions` are those uploaded so far.
FailedValues(renditions, message) == [status |-> "failed", error |-> message]

\* A faulty variant: the ready merge leaves the renditions map out.
ReadyValuesNoRenditions(renditions) ==
  [status |-> "ready",
   processedPath |-> Best(renditions, "path"),
   playbackUrl |-> Best(renditions, "playbackUrl")]

\* A faulty variant: the ready merge writes the status alone.
ReadyValuesStatusOnly(renditions) == [status |-> "ready"]

\* The fields merged after the last upload.
ReadyValues(renditions) ==
  [status |-> "ready", renditions |-> renditions,
   processedPath |-> Best(renditions, "path"),
   playbackUrl |-> Best(renditions, "playbackUrl")]

\* The fields merged before the download.
ProcessingValues(payload) ==
  [status |-> "processing",
   rawPath |-> GsPath(payload.inputBucket, payload.inputObject)]

Payload(w) == parsePubSubPayload(w.body)
\* A faulty variant: the heights are taken from the last to the first.
HeightDescending(w) == renditionHeights[Len(renditionHeights) + 1 - w.h]

Height(w) == renditionHeights[w.h]

\* The catch block up to its awaited write, for invocation w, `rest` being
\* the other invocations in progress; without a video id it answers at once,
\* leaving its local files behind.
Catch(rest, w, message) ==
  IF maybeVideoId(w.body) # Undefined
  THEN /\ videos' = updateVideoStatus(maybeVideoId(w.body),
                      FailedValues(w.renditions, message))
       /\ work' = Started(rest, [w EXCEPT !.pc = "respond500",
                                          !.message = message])
       /\ UNCHANGED <<out, leaked>>
  ELSE /\ UNCHANGED videos
       /\ work' = rest
       /\ leaked' = leaked \cup w.files
       /\ out' = Response("worker", 500, message)

\* A faulty variant: whatever the header, the token is taken to be the secret.
bearerTokenTrusted(auth) == cfg.jobToken

\* authHeader.replace('Bearer ', '')
bearerToken(auth) == Replace(auth, <<"Bearer ">>, <<>>)

\* POST /process-video up to its first awaited call.
handleJob(body, auth) ==
  /\ BagCardinality(work) < Cardinality(Workers)
  /\ LET token == bearerToken(auth)
     IN IF cfg.jobToken # <<>> /\ token # cfg.jobToken
        THEN /\ out' = Response("worker", 401, "Unauthorized")
             /\ UNCHANGED <<videos, work, leaked>>
        ELSE IF ParseError(body) # ""
        THEN Catch(work, [NewWork EXCEPT !.body = body], ParseError(body))
        ELSE LET payload == parsePubSubPayload(body)
                 targetBucket ==
                   IF ~Falsy(payload, "outputBucket") THEN payload.outputBucket
                   ELSE cfg.outputBucket
             IN IF targetBucket = ""
                THEN /\ out' = Response("worker", 500,
                                 "OUTPUT_BUCKET is not configured")
                     /\ UNCHANGED <<videos, work, leaked>>
                ELSE /\ videos' = updateVideoStatus(payload.videoId,
                                                    ProcessingValues(payload))
                     /\ work' = Started(work,
                          [NewWork EXCEPT !.pc = "download", !.body = body,
                             !.target = targetBucket])
                     /\ UNCHANGED <<out, leaked>>
  /\ UNCHANGED <<cfg, objects, queue, disp, nReq>>

\* One of the deliveries that are counted: a push of the subscription, or a
\* request of another caller.
Deliver(body, auth) ==
  /\ nDeliv < MaxDeliveries
  /\ nDeliv' = nDeliv + 1
  /\ handleJob(body, auth)

\* storage.bucket(inputBucket).file(inputObject).download(...)
Download(w, ok) ==
  /\ Running(work, w)
  /\ w.pc = "download"
  /\ ok => <<Payload(w).inputBucket, Payload(w).inputObject>> \in objects
  /\ IF ok
     THEN /\ work' = Stepped(work, w, [w EXCEPT !.pc = "transcode", !.h = 1,
               !.files = @ \cup {localInputPath(Payload(w).inputObject)}])
          /\ UNCHANGED <<videos, out, leaked>>
     ELSE Catch(Ended(work, w), w, "download failed")
  /\ UNCHANGED <<cfg, objects, queue, disp, nReq, nDeliv>>

\* transcodeToHeight(localInputPath, localOutputPath, height)
Transcode(w, ok) ==
  /\ Running(work, w)
  /\ w.pc = "transcode"
  /\ IF ok
     THEN /\ work' = Stepped(work, w, [w EXCEPT !.pc = "upload",
               !.files = @ \cup {localOutputPath(Payload(w).videoId, Height(w))}])
          /\ UNCHANGED <<videos, out, leaked>>
     ELSE Catch(Ended(work, w), w, "ffmpeg exited with code 1")
  /\ UNCHANGED <<cfg, objects, queue, disp, nReq, nDeliv>>

\* storage.bucket(targetBucket).upload(...), and the rendition it records.
Upload(w, ok) ==
  /\ Running(work, w)
  /\ w.pc = "upload"
  /\ IF ok
     THEN /\ objects' = objects \cup
               {<<w.target, outputObject(Payload(w).videoId, Height(w))>>}
          /\ work' = Stepped(work, w,
               [w EXCEPT
                  !.renditions =
                     MergeFlat(w.renditions,
                       [k \in {Label(Height(w))} |->
                          RenditionInfo(w.target, Payload(w).videoId, Height(w))]),
                  !.localOutputs = Append(w.localOutputs,
                     localOutputPath(Payload(w).videoId, Height(w))),
                  !.h = w.h + 1,
                  !.pc = IF w.h = Len(renditionHeights)
                         THEN "commit" ELSE "transcode"])
          /\ UNCHANGED <<videos, out, leaked>>
     ELSE /\ Catch(Ended(work, w), w, "upload failed")
          /\ UNCHANGED objects
  /\ UNCHANGED <<cfg, queue, disp, nReq, nDeliv>>

\* updateVideoStatus(videoId, {status: 'ready', renditions, ...})
Commit(w) ==
  /\ Running(work, w)
  /\ w.pc = "commit"
  /\ videos' = updateVideoStatus(Payload(w).videoId, ReadyValues(w.renditions))
  /\ work' = Stepped(work, w, [w EXCEPT !.pc = "respond200"])
  /\ UNCHANGED <<cfg, objects, queue, disp, leaked, out, nReq, nDeliv>>

Range(s) == {s[i] : i \in 1..Len(s)}

\* fs.rmSync of the local files, then 200: the subscription acknowledges.
Respond200(w) ==
  /\ Running(work, w)
  /\ w.pc = "respond200"
  /\ leaked' = leaked \cup
       ((w.files \ {localInputPath(Payload(w).inputObject)})
          \ Range(w.localOutputs))
  /\ queue' = queue (-) SetToBag({Payload(w)})
  /\ out' = Response("worker", 200, "processed")
  /\ work' = Ended(work, w)
  /\ UNCHANGED <<cfg, videos, objects, disp, nReq, nDeliv>>

\* A faulty variant: the subscription takes a 500 for an acknowledgement.
UnacknowledgedDropped(q, payload) == q (-) SetToBag({payload})

\* The topic after a push was answered 500: the message stays, to be
\* delivered again.
Unacknowledged(q, payload) == q

\* res.status(500).send(`Processing failed: ${message}`)
Respond500(w) ==
  /\ Running(work, w)
  /\ w.pc = "respond500"
  /\ leaked' = leaked \cup w.files
  /\ queue' = Unacknowledged(queue, Payload(w))
  /\ out' = Response("worker", 500, w.message)
  /\ work' = Ended(work, w)
  /\ UNCHANGED <<cfg, videos, objects, disp, nReq, nDeliv>>

\* ------------------------------------------------------------ specification
\* What the push subscription and other callers can send to the worker.
Bodies == ExternalBodies \cup {[data |-> m] : m \in BagToSet(queue)}

Next ==
  \/ \E id \in VideoIds, t \in Titles, f \in Filenames, u \in Users :
       CreateVideo(id, t, f, u)
  \/ \E id \in VideoIds, f \in Filenames : ClientUpload(id, f)
  \/ \E id \in VideoIds, tok \in IdTokens : ProcessStart(id, tok)
  \/ \E obj \in objects : FinalizeStart(obj)
  \/ \E d \in BagToSet(disp) : FinalizeGet(d)
  \/ \E d \in BagToSet(disp) : QueuedMerge(d)
  \/ \E d \in BagToSet(disp), ok \in BOOLEAN : publishProcessingJob(d, ok)
  \/ \E body \in Bodies, auth \in AuthHeaders : Deliver(body, auth)
  \/ \E w \in BagToSet(work), ok \in BOOLEAN : Download(w, ok)
  \/ \E w \in BagToSet(work), ok \in BOOLEAN : Transcode(w, ok)
  \/ \E w \in BagToSet(work), ok \in BOOLEAN : Upload(w, ok)
  \/ \E w \in BagToSet(work) : Commit(w)
  \/ \E w \in BagToSet(work) : Respond200(w)
  \/ \E w \in BagToSet(work) : Respond500(w)

Spec == Init /\ [][Next]_vars

\* ------------------------------------------------------------ the subscription
\* The push subscription alone: it delivers the messages of the topic with
\* the configured token, and delivers a message again as long as it is not
\* acknowledged, any number of times.
Redeliver(m) ==
  /\ m \in BagToSet(queue)
  /\ handleJob([data |-> m], <<"Bearer ">> \o cfg.jobToken)
  /\ UNCHANGED nDeliv

NextLive ==
  \/ \E id \in VideoIds, t \in Titles, f \in Filenames, u \in Users :
       CreateVideo(id, t, f, u)
  \/ \E id \in VideoIds, f \in Filenames : ClientUpload(id, f)
  \/ \E id \in VideoIds, tok \in IdTokens : ProcessStart(id, tok)
  \/ \E obj \in objects : FinalizeStart(obj)
  \/ \E d \in BagToSet(disp) : QueuedMerge(d)
  \/ \E d \in BagToSet(disp), ok \in BOOLEAN : publishProcessingJob(d, ok)
  \/ \E m \in BagToSet(queue) : Redeliver(m)
  \/ \E w \in BagToSet(work), ok \in BOOLEAN : Download(w, ok)
  \/ \E w \in BagToSet(work), ok \in BOOLEAN : Transcode(w, ok)
  \/ \E w \in BagToSet(work), ok \in BOOLEAN : Upload(w, ok)
  \/ \E w \in BagToSet(work) : Commit(w)
  \/ \E w \in BagToSet(work) : Respond200(w)
  \/ \E w \in BagToSet(work) : Respond500(w)

\* Every awaited call of the worker resolves or rejects.
StepFairness ==
  /\ WF_vars(\E w \in BagToSet(work), ok \in BOOLEAN : Download(w, ok))
  /\ WF_vars(\E w \in BagToSet(work), ok \in BOOLEAN : Transcode(w, ok))
  /\ WF_vars(\E w \in BagToSet(work), ok \in BOOLEAN : Upload(w, ok))
  /\ WF_vars(\E w \in BagToSet(work) : Commit(w))
  /\ WF_vars(\E w \in BagToSet(work) : Respond200(w))
  /\ WF_vars(\E w \in BagToSet(work) : Respond500(w))

\* The subscription goes on delivering while a message is unacknowledged.
Fairness ==
  /\ WF_vars(\E m \in BagToSet(queue) : Redeliver(m))
  /\ StepFairness

SpecLive == Init /\ [][NextLive]_vars /\ Fairness

\* ------------------------------------------------------------ retries
\* The subscription pushing one message at a time, next to requests for
\* which the worker begins no attempt: a wrong or absent token, a malformed
\* body, or a payload without a target bucket.
Push(m) == work = EmptyBag /\ Redeliver(m)

Reject(body, auth) ==
  /\ IF auth # <<"Bearer ">> \o cfg.jobToken \/ ParseError(body) # ""
     THEN TRUE
     ELSE "outputBucket" \notin DOMAIN body.data /\ cfg.outputBucket = ""
  /\ handleJob(body, auth)
  /\ UNCHANGED nDeliv

NextRetry ==
  \/ \E id \in VideoIds, t \in Titles, f \in Filenames, u \in Users :
       CreateVideo(id, t, f, u)
  \/ \E id \in VideoIds, f \in Filenames : ClientUpload(id, f)
  \/ \E id \in VideoIds, tok \in IdTokens : ProcessStart(id, tok)
  \/ \E obj \in objects : FinalizeStart(obj)
  \/ \E d \in BagToSet(disp) : QueuedMerge(d)
  \/ \E d \in BagToSet(disp), ok \in BOOLEAN : publishProcessingJob(d, ok)
  \/ \E m \in BagToSet(queue) : Push(m)
  \/ \E body \in Bodies, auth \in AuthHeaders : Reject(body, auth)
  \/ \E w \in BagToSet(work), ok \in BOOLEAN : Download(w, ok)
  \/ \E w \in BagToSet(work), ok \in BOOLEAN : Transcode(w, ok)
  \/ \E w \in BagToSet(work), ok \in BOOLEAN : Upload(w, ok)
  \/ \E w \in BagToSet(work) : Commit(w)
  \/ \E w \in BagToSet(work) : Respond200(w)
  \/ \E w \in BagToSet(work) : Respond500(w)

SpecRetry ==
  /\ Init /\ [][NextRetry]_vars
  /\ WF_vars(\E m \in BagToSet(queue) : Push(m))
  /\ StepFairness

\* ------------------------------------------------------------ properties
DocIn(vs, id) == IF id \in DOMAIN vs THEN vs[id] ELSE EmptyDoc
StatusIn(vs, id) == Field(DocIn(vs, id), "status")
Project(doc, F) == [k \in F \cap DOMAIN doc |-> doc[k]]
Labels == {"360p", "720p"}
RenditionFields == {"renditions", "processedPath", "playbackUrl"}

HasRenditions(doc) == "renditions" \in DOMAIN doc /\ DOMAIN doc.renditions # {}
HasError(doc) == "error" \in DOMAIN doc /\ doc.error # ""

\* The record is at rest: ready with the configured renditions, or failed
\* with an error.
AtRest(doc) ==
  \/ Field(doc, "status") = "ready" /\ HasRenditions(doc)
       /\ DOMAIN doc.renditions = Labels
  \/ Field(doc, "status") = "failed" /\ HasError(doc)

ValidPayload(body) ==
  /\ "data" \in DOMAIN body
  /\ \A k \in {"videoId", "inputBucket", "inputObject"} : ~Falsy(body.data, k)

\* In this step invocation x appears in the bag (it started, or an invocation
\* stepped into this state).
Entered(bag, bagNext, x) == CopiesIn(x, bagNext) > CopiesIn(x, bag)

\* In this step the worker answers a request that carries the payload of
\* video id: at once from Deliver, or from one of its two respond steps.
WorkerReturns(id) ==
  \/ \E w \in BagToSet(work) :
       /\ Respond200(w) \/ Respond500(w)
       /\ Payload(w).videoId = id
  \/ \E body \in Bodies, auth \in AuthHeaders :
       /\ ValidPayload(body) /\ body.data.videoId = id
       /\ Deliver(body, auth)
       /\ work' = work

\* Records created by the upload intent (POST /videos).
Uploaded == VideoIds \cap DOMAIN videos

\* C1 as stated: whenever the worker answers a request with a valid payload
\* that names a record created by the upload intent, that record is ready
\* with exactly the labels 360p and 720p or failed with a non-empty error.
C1_AtRestOnReturn ==
  [][\A id \in Uploaded :
       WorkerReturns(id) => AtRest(DocIn(videos', id))]_vars

Authorized(auth) ==
  cfg.jobToken = <<>> \/ auth = <<"Bearer ">> \o cfg.jobToken

HasTarget(body) == ~Falsy(body.data, "outputBucket") \/ cfg.outputBucket # ""

\* C1 amended: an invocation with a valid payload that passes the token
\* check and finds a target bucket goes on (it does not answer at once); an
\* invocation in progress answers only from one of its two respond steps; it
\* reaches the 200 step by the write that leaves the record ready with
\* exactly the labels 360p and 720p, and the 500 step by the write that
\* leaves the record failed with a non-empty error; the respond steps write
\* no record.
C1_LastWriteAtRest ==
  [][/\ \A body \in Bodies, auth \in AuthHeaders :
          Deliver(body, auth) /\ ValidPayload(body) /\ Authorized(auth)
            /\ HasTarget(body)
          => \E w \in BagToSet(work') :
               Entered(work, work', w) /\ w.pc = "download" /\ w.body = body
     /\ BagCardinality(work') < BagCardinality(work)
          => \E w \in BagToSet(work) :
               /\ w.pc \in {"respond200", "respond500"}
               /\ work' = Ended(work, w)
               /\ videos' = videos
     /\ \A w \in BagToSet(work') :
          Entered(work, work', w) /\ w.pc \in {"respond200", "respond500"}
          => LET doc == DocIn(videos', Payload(w).videoId)
             IN /\ AtRest(doc)
                /\ doc.status = (IF w.pc = "respond200" THEN "ready" ELSE "failed")
    ]_vars

C1_Witness ==
  \E w \in BagToSet(work) :
    /\ w.pc = "respond500"
    /\ w.message = "ffmpeg exited with code 1"
    /\ Status(Payload(w).videoId) = "failed"
    /\ HasError(DocOf(Payload(w).videoId))

\* The edges of the lifecycle table.
Edges ==
  { <<"uploading", "queued">>, <<"queued", "processing">>,
    <<"processing", "ready">>, <<"processing", "failed">>,
    <<"failed", "queued">> }

\* C2: every change of the status of a record created by the upload intent
\* follows one of the edges uploading->queued, queued->processing,
\* processing->ready, processing->failed, failed->queued.
C2_OnlyTableEdges ==
  [][\A id \in Uploaded :
       StatusIn(videos', id) # Status(id)
         => <<Status(id), StatusIn(videos', id)>> \in Edges]_vars

\* C3: a record created by the upload intent holds renditions if and only if
\* its status is ready.
C3_RenditionsIffReady ==
  \A id \in Uploaded : HasRenditions(videos[id]) <=> Status(id) = "ready"

\* C4: a record created by the upload intent holds an error only while its
\* status is failed.
C4_ErrorOnlyWhenFailed ==
  \A id \in Uploaded : "error" \in DOMAIN videos[id] => Status(id) = "failed"

\* In this step invocation w fails: its download, transcode or upload throws
\* and the catch block runs.
Fails(w) ==
  /\ w.pc \in {"download", "transcode", "upload"}
  /\ CopiesIn(w, work') < CopiesIn(w, work)
  /\ \E x \in BagToSet(work') : Entered(work, work', x) /\ x.pc = "respond500"

\* C5: the step in which a download, transcode or upload fails leaves the
\* record failed with a non-empty error and leaves renditions, processedPath
\* and playbackUrl as they were (absent when they were absent); and these
\* three fields of a record change only in the step that commits a complete
\* set of renditions.
C5_AllOrNothing ==
  [][/\ \A w \in BagToSet(work) :
          Fails(w)
          => LET id == Payload(w).videoId
             IN /\ StatusIn(videos', id) = "failed"
                /\ HasError(DocIn(videos', id))
                /\ Project(DocIn(videos', id), RenditionFields)
                     = Project(DocOf(id), RenditionFields)
     /\ \A id \in DOMAIN videos' :
          Project(DocIn(videos', id), RenditionFields)
             # Project(DocOf(id), RenditionFields)
          => \E w \in BagToSet(work) :
               /\ w.pc = "commit" /\ Payload(w).videoId = id
               /\ DOMAIN w.renditions = Labels
               /\ Entered(work, work', [w EXCEPT !.pc = "respond200"])
    ]_vars

\* The transcode of 720 failed after 360 was uploaded, on a record without
\* renditions.
C5_Witness ==
  \E w \in BagToSet(work) :
    /\ w.pc = "respond500"
    /\ w.message = "ffmpeg exited with code 1"
    /\ DOMAIN w.renditions = {"360p"}
    /\ Status(Payload(w).videoId) = "failed"
    /\ "renditions" \notin DOMAIN videos[Payload(w).videoId]

ExpectedRendition(bucket, id, label, height) ==
  [path |-> <<"gs://", bucket, "/", "processed/", id, "/", label, ".mp4">>,
   playbackUrl |-> <<"https://storage.googleapis.com/", bucket, "/",
                     "processed/", id, "/", label, ".mp4">>,
   height |-> height]

\* C6: the write that follows the upload of both heights leaves the record
\* ready, with renditions holding exactly 360p and 720p, each with its path,
\* playbackUrl and height, and with processedPath and playbackUrl those of
\* the 720p entry.
C6_ReadyCommit ==
  [][\A w \in BagToSet(work) :
       w.pc = "commit" /\ Entered(work, work', [w EXCEPT !.pc = "respond200"])
       => LET id == Payload(w).videoId
              doc == DocIn(videos', id)
          IN /\ doc.status = "ready"
             /\ doc.renditions =
                  [l \in Labels |->
                     ExpectedRendition(w.target, id, l,
                                       IF l = "360p" THEN 360 ELSE 720)]
             /\ doc.processedPath = doc.renditions["720p"].path
             /\ doc.playbackUrl = doc.renditions["720p"].playbackUrl
             /\ doc.processedPath # doc.renditions["360p"].path
    ]_vars

C6_Witness ==
  \E w \in BagToSet(work) :
    /\ w.pc = "respond200"
    /\ Status(Payload(w).videoId) = "ready"
    /\ DOMAIN videos[Payload(w).videoId].renditions = Labels

\* C7: POST /videos/:videoId/process on a record whose rawPath lies in the
\* raw bucket goes on with the raw bucket and the rawPath less its
\* gs://<bucket>/ prefix; its write leaves the record queued; and when the
\* topic accepts the message it answers 200 and exactly one message is added
\* to the topic, whose videoId, inputBucket and inputObject are those.
C7_RequestQueuesOneJob ==
  [][/\ \A id \in VideoIds, tok \in IdTokens :
          ProcessStart(id, tok) /\ tok = "valid" /\ id \in DOMAIN videos
            /\ StartsWith(videos[id].rawPath, <<"gs://", "raw-videos", "/">>)
          => Entered(disp, disp',
               [pc |-> "merge", kind |-> "process", videoId |-> id,
                bucket |-> "raw-videos",
                name |-> SubSeq(videos[id].rawPath, 4, Len(videos[id].rawPath))])
     /\ \A d \in BagToSet(disp) :
          d.kind = "process" /\ QueuedMerge(d)
          => /\ StatusIn(videos', d.videoId) = "queued"
             /\ queue' = queue
             /\ Entered(disp, disp', [d EXCEPT !.pc = "publish"])
     /\ \A d \in BagToSet(disp) :
          d.kind = "process" /\ publishProcessingJob(d, TRUE)
          => /\ BagCardinality(queue') = BagCardinality(queue) + 1
             /\ \E m \in BagToSet(queue') :
                  /\ CopiesIn(m, queue') = CopiesIn(m, queue) + 1
                  /\ m.videoId = d.videoId
                  /\ m.inputBucket = d.bucket
                  /\ m.inputObject = d.name
             /\ out' = Response("process", 200, "queued")
             /\ videos' = videos
    ]_vars

\* The first request for an uploading record has been answered: the record
\* is queued and one message names it, with the raw bucket and the object
\* path of its rawPath.
C7_Witness ==
  /\ nReq = 1 /\ nDeliv = 0
  /\ out = Response("process", 200, "queued")
  /\ Status("v1") = "queued"
  /\ BagCardinality(queue) = 1
  /\ \E m \in BagToSet(queue) :
       /\ m.videoId = "v1" /\ m.inputBucket = "raw-videos"
       /\ <<"gs://", m.inputBucket, "/">> \o m.inputObject = videos["v1"].rawPath

\* C8: as long as the worker has taken no delivery and the client has not
\* uploaded the file (so that no finalize notification names the file of the
\* rawPath), the topic holds at most one message with the object of the
\* record's rawPath: requests for processing do not publish it twice.
C8_RequestIsIdempotent ==
  \A id \in Uploaded :
    nDeliv = 0 /\ (\A f \in Filenames : <<rawBucket, ObjectPath(id, f)>> \notin objects)
    => \A m \in BagToSet(queue) :
         m.videoId = id /\ GsPath(m.inputBucket, m.inputObject) = videos[id].rawPath
         => CopiesIn(m, queue) <= 1

\* In this step a finalize notification reads the document of video id:
\* at once, the id being parsed from the object name, or after the rawPath
\* query.
FinalizeReads(id) ==
  \/ \E obj \in objects :
       /\ FinalizeStart(obj)
       /\ obj[1] = rawBucket /\ StartsWith(obj[2], <<"raw/">>)
       /\ parseVideoIdFromRawObject(obj[2]) = id
  \/ \E d \in BagToSet(disp) : FinalizeGet(d) /\ d.videoId = id

\* C9: a finalize notification that reads a record whose status is queued,
\* processing or ready ends there: no record changes, no message is
\* published, and no invocation is left to write or publish later.
C9_DuplicateFinalizeNoOp ==
  [][\A id \in DOMAIN videos :
       FinalizeReads(id) /\ Status(id) \in {"queued", "processing", "ready"}
       => /\ videos' = videos
          /\ queue' = queue
          /\ \A d \in BagToSet(disp') : ~Entered(disp, disp', d)
          /\ BagCardinality(disp') <= BagCardinality(disp)
    ]_vars

C9_Witness ==
  /\ out = Response("finalize", 0, "duplicate")
  /\ Status("v1") = "ready"
  /\ disp = EmptyBag

\* A body without message data, or whose payload lacks one of videoId,
\* inputBucket, inputObject or holds it empty.
Malformed(body) ==
  \/ "data" \notin DOMAIN body
  \/ \E k \in {"videoId", "inputBucket", "inputObject"} :
       k \notin DOMAIN body.data \/ Len(body.data[k]) = 0

\* C10: a delivery with a malformed body is answered at once with an error,
\* and writes no record, creates no object and no local file, and starts no
\* processing.
C10_MalformedRejected ==
  [][\A body \in Bodies, auth \in AuthHeaders :
       Deliver(body, auth) /\ Malformed(body)
       => /\ videos' = videos
          /\ objects' = objects
          /\ work' = work
          /\ leaked' = leaked
          /\ queue' = queue
          /\ out'.op = "worker" /\ out'.status \in {401, 500}
    ]_vars

\* A payload that names an existing record and lacks its inputObject has
\* been rejected, the record being as the upload intent left it.
C10_Witness ==
  /\ out = Response("worker", 500, "Job payload is missing required fields")
  /\ nDeliv = 1 /\ nReq = 0
  /\ "v1" \in DOMAIN videos
  /\ videos["v1"].status = "uploading"
  /\ work = EmptyBag

\* C11: POST /videos/:videoId/process by an authenticated caller for an id
\* that has no record is answered 404; the step creates and changes no
\* record, publishes no message and leaves no invocation that could.
C11_NotFound ==
  [][\A id \in VideoIds, tok \in IdTokens :
       ProcessStart(id, tok) /\ requireAuth(tok) = 0 /\ id \notin DOMAIN videos
       => /\ out' = Response("process", 404, id)
          /\ videos' = videos
          /\ queue' = queue
          /\ disp' = disp
    ]_vars

\* The request for v1 was answered 404, and there is still no record v1
\* and no message.
C11_Witness ==
  /\ out = Response("process", 404, "v1")
  /\ "v1" \notin DOMAIN videos
  /\ nReq >= 1
  /\ queue = EmptyBag

\* The rawPath of the document is missing, empty or outside the raw bucket.
InvalidRawPath(doc) ==
  \/ "rawPath" \notin DOMAIN doc
  \/ doc.rawPath = <<>>
  \/ ~StartsWith(doc.rawPath, <<"gs://", "raw-videos", "/">>)

\* C12: POST /videos/:videoId/process by an authenticated caller for a
\* record whose rawPath is missing or does not lie in the raw bucket is
\* answered 400; the step changes no field of any record, publishes no
\* message and leaves no invocation that could.
C12_InvalidState ==
  [][\A id \in VideoIds, tok \in IdTokens :
       /\ ProcessStart(id, tok) /\ requireAuth(tok) = 0
       /\ id \in DOMAIN videos /\ InvalidRawPath(videos[id])
       => /\ out' = Response("process", 400, id)
          /\ videos' = videos
          /\ queue' = queue
          /\ disp' = disp
    ]_vars

\* The request for v1, whose rawPath a job from another bucket replaced, was
\* answered 400; the record is as the failed attempt left it.
C12_Witness ==
  /\ out = Response("process", 400, "v1")
  /\ "v1" \in DOMAIN videos
  /\ InvalidRawPath(videos["v1"])
  /\ videos["v1"].status = "failed"
  /\ queue = EmptyBag

\* C13: with a secret configured, a delivery whose header is not "Bearer "
\* followed by the secret is answered 401, and the step writes no record,
\* creates no object and no local file, starts no processing and
\* acknowledges no message.
C13_UnauthorizedNoEffect ==
  [][\A body \in Bodies, auth \in AuthHeaders :
       Deliver(body, auth) /\ cfg.jobToken # <<>> /\ ~Authorized(auth)
       => /\ out' = Response("worker", 401, "Unauthorized")
          /\ videos' = videos
          /\ objects' = objects
          /\ work' = work
          /\ leaked' = leaked
          /\ queue' = queue
    ]_vars

\* A job published for v1 was delivered with a wrong token: it is still on
\* the topic, the record is still queued and nothing runs.
C13_Witness ==
  /\ out = Response("worker", 401, "Unauthorized")
  /\ Status("v1") = "queued"
  /\ BagCardinality(queue) = 1
  /\ nDeliv = 1
  /\ work = EmptyBag
  /\ leaked = {}

\* C14: no local temporary file of an invocation that has returned, be it
\* with 200 or with 500, still exists: the downloaded source and every
\* rendition output were deleted before the answer.
C14_CleanupOnReturn == leaked = {}

\* C15: the rawPath of a record created by POST /videos never changes: no
\* step of the process endpoint, of the finalize trigger or of the worker on
\* a message taken from the topic leaves it different. (Deliveries of bodies
\* that another publisher made are left aside.)
C15_RawPathSetOnce ==
  [][\A id \in Uploaded :
       \/ \E body \in ExternalBodies \ {[data |-> m] : m \in BagToSet(queue)},
             auth \in AuthHeaders : Deliver(body, auth)
       \/ /\ id \in DOMAIN videos'
          /\ Project(videos'[id], {"rawPath"}) = Project(videos[id], {"rawPath"})
    ]_vars

\* C16: whenever a record is ready, each path in its renditions is the gs
\* path of an object that is in the output bucket.
C16_ReadyPathsResolve ==
  \A id \in DOMAIN videos :
    Status(id) = "ready" =>
      /\ HasRenditions(videos[id])
      /\ \A label \in DOMAIN videos[id].renditions :
           \E obj \in objects :
             /\ obj[1] \in {processedVideosBucket, ArchiveBucket}
             /\ GsPath(obj[1], obj[2]) = videos[id].renditions[label].path

\* v1 is ready after two deliveries that ran to their end, the second while
\* or after the first one ran.
C16_Witness ==
  /\ Status("v1") = "ready"
  /\ nDeliv = 2
  /\ work = EmptyBag
  /\ queue = EmptyBag
  /\ DOMAIN videos["v1"].renditions = Labels
  /\ \A h \in {360, 720} :
       <<processedVideosBucket, outputObject("v1", h)>> \in objects

C18_DuplicateDeliveryNoOp ==
  [][\A m \in BagToSet(queue), auth \in AuthHeaders :
       /\ Deliver([data |-> m], auth) /\ Authorized(auth)
       /\ ValidPayload([data |-> m]) /\ HasTarget([data |-> m])
       /\ m.videoId \in Uploaded
       /\ Status(m.videoId) \in {"processing", "ready"}
       => /\ StatusIn(videos', m.videoId) = Status(m.videoId)
          /\ Project(DocIn(videos', m.videoId), {"renditions"})
               = Project(videos[m.videoId], {"renditions"})
    ]_vars

\* C19: in both entry points the merge of status queued precedes the
\* publish: a message enters the topic only in the publish step of an
\* invocation that names its video, and an invocation comes to its publish
\* step only by its own merge, which leaves the record of that video queued.
C19_MergeBeforePublish ==
  [][/\ \A m \in BagToSet(queue') :
          CopiesIn(m, queue') > CopiesIn(m, queue)
          => \E d \in BagToSet(disp) :
               /\ d.pc = "publish" /\ d.videoId = m.videoId
               /\ d.kind \in {"process", "finalize"}
               /\ publishProcessingJob(d, TRUE)
     /\ \A d \in BagToSet(disp') :
          d.pc = "publish" /\ Entered(disp, disp', d)
          => /\ Running(disp, [d EXCEPT !.pc = "merge"])
             /\ QueuedMerge([d EXCEPT !.pc = "merge"])
             /\ StatusIn(videos', d.videoId) = "queued"
             /\ queue' = queue
    ]_vars

\* The finalize trigger has published the job of v1, whose record it found
\* in uploading and left queued.
C19_Witness ==
  /\ out = Response("finalize", 0,
             "Queued processing job from storage finalize event")
  /\ Status("v1") = "queued"
  /\ nReq = 1 /\ nDeliv = 0
  /\ BagCardinality(queue) = 1
  /\ \E m \in BagToSet(queue) : m.videoId = "v1"

\* Where an invocation in progress stands: before the download nothing is
\* written locally or recorded; at the k-th height exactly the k-1 lower
\* heights are uploaded and recorded, the source is downloaded, and an upload
\* has its own height's output file; the commit has every height uploaded.
InOrder(w) ==
  LET done(k) == {Label(renditionHeights[i]) : i \in 1..k}
      uploaded(k) ==
        \A i \in 1..k :
          <<w.target, outputObject(w.body.data.videoId, renditionHeights[i])>>
            \in objects
  IN /\ w.pc = "download" => w.files = {} /\ DOMAIN w.renditions = {}
     /\ w.pc \in {"transcode", "upload"} =>
          /\ w.h \in 1..Len(renditionHeights)
          /\ DOMAIN w.renditions = done(w.h - 1) /\ uploaded(w.h - 1)
          /\ localInputPath(w.body.data.inputObject) \in w.files
     /\ w.pc = "upload" =>
          localOutputPath(w.body.data.videoId, renditionHeights[w.h]) \in w.files
     /\ w.pc \in {"commit", "respond200"} =>
          /\ DOMAIN w.renditions = done(Len(renditionHeights))
          /\ uploaded(Len(renditionHeights))

\* C20: within one invocation of the worker, the merge of processing is
\* written in the step that leads to the download; the heights are handled
\* in ascending order, 360 then 720, each uploaded after its own transcode;
\* a record becomes ready only by the commit of an invocation that has
\* uploaded every height, and failed only by an invocation whose download,
\* transcode or upload failed.
C20_StepOrder ==
  [][/\ \A i \in 1..(Len(renditionHeights) - 1) :
          renditionHeights[i] < renditionHeights[i + 1]
     /\ \A w \in BagToSet(work') : InOrder(w)'
     /\ \A w \in BagToSet(work') :
          w.pc = "download" /\ Entered(work, work', w)
          => /\ StatusIn(videos', w.body.data.videoId) = "processing"
             /\ \E auth \in AuthHeaders : Deliver(w.body, auth)
     /\ \A id \in DOMAIN videos' :
          StatusIn(videos', id) = "ready" /\ DocIn(videos, id) # videos'[id]
          => \E w \in BagToSet(work) :
               /\ Commit(w) /\ w.body.data.videoId = id
               /\ DOMAIN w.renditions = Labels
     /\ \A id \in DOMAIN videos' :
          StatusIn(videos', id) = "failed" /\ DocIn(videos, id) # videos'[id]
          => \E w \in BagToSet(work), ok \in {FALSE} :
               /\ w.body.data.videoId = id
               /\ Download(w, ok) \/ Transcode(w, ok) \/ Upload(w, ok)
    ]_vars

\* An invocation for v1 is about to upload 720p: 360p is uploaded and
\* recorded, 720p is not.
C20_Witness ==
  \E w \in BagToSet(work) :
    /\ w.pc = "upload" /\ w.h = 2
    /\ w.body.data.videoId = "v1"
    /\ DOMAIN w.renditions = {"360p"}
    /\ <<w.target, outputObject("v1", 360)>> \in objects
    /\ <<w.target, outputObject("v1", 720)>> \notin objects
    /\ Status("v1") = "processing"

\* C21: an authorised delivery with a valid payload and a target bucket
\* sets the record to processing whatever its status was, and the commit of
\* an attempt that uploaded every height leaves the record's renditions
\* equal to that attempt's outputs: 360p and 720p in the attempt's target
\* bucket, and nothing of an earlier attempt.
C21_FreshAttempt ==
  [][/\ \A body \in Bodies, auth \in AuthHeaders :
          /\ Deliver(body, auth) /\ Authorized(auth)
          /\ ValidPayload(body) /\ HasTarget(body)
          => /\ StatusIn(videos', body.data.videoId) = "processing"
             /\ \E w \in BagToSet(work') :
                  /\ Entered(work, work', w)
                  /\ w.pc = "download" /\ w.body = body
                  /\ DOMAIN w.renditions = {}
     /\ \A w \in BagToSet(work) :
          Commit(w)
          => LET id == w.body.data.videoId
             IN /\ StatusIn(videos', id) = "ready"
                /\ Project(DocIn(videos', id), {"renditions"})
                     = [renditions |-> w.renditions]
                /\ w.renditions =
                     [l \in Labels |->
                        ExpectedRendition(w.target, id, l,
                                          IF l = "360p" THEN 360 ELSE 720)]
    ]_vars

\* v1 was processed twice, both attempts to their end: the outputs of the
\* attempt into the archive bucket are uploaded, and the record holds the
\* renditions of the attempt into the processed bucket only.
C21_Witness ==
  /\ Status("v1") = "ready"
  /\ nDeliv = 2 /\ work = EmptyBag
  /\ \A h \in {360, 720} : <<ArchiveBucket, outputObject("v1", h)>> \in objects
  /\ videos["v1"].renditions =
       [l \in Labels |->
          ExpectedRendition(processedVideosBucket, "v1", l,
                            IF l = "360p" THEN 360 ELSE 720)]

\* The finalize event of obj passes the bucket and prefix tests and finds
\* no record: the id parsed from the name has no document, or no id can be
\* parsed and no document has the object's gs path as rawPath.
NoRecordFor(obj) ==
  /\ obj[1] = "raw-videos" /\ Len(obj[2]) >= 1 /\ obj[2][1] = "raw/"
  /\ LET id == parseVideoIdFromRawObject(obj[2])
     IN IF id # Undefined THEN id \notin DOMAIN videos
        ELSE \A v \in DOMAIN videos :
               Project(videos[v], {"rawPath"})
                 # [rawPath |-> <<"gs://", obj[1], "/">> \o obj[2]]

\* C22: a finalize notification that finds no record is dropped: it creates
\* and changes no record, publishes nothing, leaves no invocation behind,
\* and ends with a warning in the log, not with an error.
C22_FinalizeWithoutRecord ==
  [][\A obj \in objects :
       FinalizeStart(obj) /\ NoRecordFor(obj)
       => /\ videos' = videos
          /\ queue' = queue
          /\ disp' = disp
          /\ out' \in
               { Response("finalize", 0,
                   "No video metadata found for uploaded object"),
                 Response("finalize", 0,
                   "Video document missing during storage finalize") }
    ]_vars

\* The event of raw/clip.mp4, whose name holds no id, found no record with
\* its path although v1 has a record; nothing was queued.
C22_Witness ==
  /\ out = Response("finalize", 0, "No video metadata found for uploaded object")
  /\ "v1" \in DOMAIN videos
  /\ Status("v1") = "uploading"
  /\ queue = EmptyBag /\ disp = EmptyBag
  /\ nReq = 1

\* C23: a finalize notification that reads a record in uploading or failed
\* goes on as the process endpoint does: its merge leaves the record queued
\* and publishes nothing yet, and its publish, when the topic accepts it,
\* adds exactly one message, with the record's id and the bucket and name
\* of the notified object, and writes no record.
C23_FinalizeQueues ==
  [][/\ \A id \in DOMAIN videos :
          FinalizeReads(id) /\ Status(id) \in {"uploading", "failed"}
          => \E d \in BagToSet(disp') :
               /\ d.pc = "merge" /\ d.kind = "finalize" /\ d.videoId = id
               /\ CopiesIn(d, disp') = CopiesIn(d, disp) + 1
               /\ <<d.bucket, d.name>> \in objects /\ d.bucket = "raw-videos"
               /\ videos' = videos /\ queue' = queue
     /\ \A d \in BagToSet(disp) :
          d.kind = "finalize" /\ QueuedMerge(d)
          => /\ StatusIn(videos', d.videoId) = "queued"
             /\ queue' = queue
             /\ Entered(disp, disp', [d EXCEPT !.pc = "publish"])
     /\ \A d \in BagToSet(disp) :
          d.kind = "finalize" /\ publishProcessingJob(d, TRUE)
          => /\ BagCardinality(queue') = BagCardinality(queue) + 1
             /\ \E m \in BagToSet(queue') :
                  /\ CopiesIn(m, queue') = CopiesIn(m, queue) + 1
                  /\ m.videoId = d.videoId
                  /\ m.inputBucket = d.bucket
                  /\ m.inputObject = d.name
             /\ videos' = videos
             /\ out' = Response("finalize", 0,
                         "Queued processing job from storage finalize event")
    ]_vars

\* A finalize notification has queued v1 again after a failed attempt: the
\* record is queued, still with the error of that attempt, and a message
\* for v1 is on the topic.
C23_Witness ==
  /\ out = Response("finalize", 0,
             "Queued processing job from storage finalize event")
  /\ Status("v1") = "queued"
  /\ HasError(videos["v1"])
  /\ \E m \in BagToSet(queue) : m.videoId = "v1" /\ m.inputBucket = "raw-videos"

IntentFields == {"title", "description", "uploadedBy"}
DispatcherFields == {"status"}
WorkerFields ==
  {"status", "rawPath", "renditions", "processedPath", "playbackUrl", "error"}

\* The fields of the document other than those of F.
Except(doc, F) == Project(doc, DOMAIN doc \ F)

\* C24: the writes are partial merges: the merge of the process endpoint and
\* of the finalize trigger changes no field of a record but status; no step
\* changes a field other than status, rawPath, renditions, processedPath,
\* playbackUrl and error; so title, description and uploadedBy of a record
\* stay as POST /videos wrote them, however the writes interleave.
C24_PartialMerges ==
  [][\A id \in DOMAIN videos :
       /\ id \in DOMAIN videos'
       /\ Project(videos'[id], IntentFields) = Project(videos[id], IntentFields)
       /\ Except(videos'[id], WorkerFields) = Except(videos[id], WorkerFields)
       /\ (\E d \in BagToSet(disp) : QueuedMerge(d))
          => Except(videos'[id], DispatcherFields)
               = Except(videos[id], DispatcherFields)
    ]_vars

\* A process request for v1 has merged queued and waits for its publish
\* while a worker attempt on v1 runs after its upload of 360p; the record
\* has the title, description and owner that POST /videos gave it.
C24_Witness ==
  /\ \E d \in BagToSet(disp) : d.pc = "publish" /\ d.videoId = "v1"
  /\ \E w \in BagToSet(work) : w.body.data.videoId = "v1" /\ w.h = 2
  /\ Project(videos["v1"], IntentFields)
       = [title |-> "Beach day", description |-> "", uploadedBy |-> "alice"]
  /\ Status("v1") = "queued"

\* The number of invocations in progress that have committed message m and
\* are about to acknowledge it.
RECURSIVE AckingIn(_, _)
AckingIn(S, m) ==
  IF S = {} THEN 0
  ELSE LET w == CHOOSE x \in S : TRUE
       IN (IF w.pc = "respond200" /\ w.body = [data |-> m]
           THEN CopiesIn(w, work) ELSE 0) + AckingIn(S \ {w}, m)

\* A message naming record id is on the topic and is not about to be
\* acknowledged.
Pending(id) ==
  /\ id \in DOMAIN videos
  /\ \E m \in BagToSet(queue) :
       m.videoId = id /\ CopiesIn(m, queue) > AckingIn(BagToSet(work), m)

\* C25: under the subscription's redelivery and with every awaited call of
\* the worker coming to an end, a message on the topic that names an
\* existing record and is not about to be acknowledged is followed by a
\* state in which that record is ready or failed.
C25_PublishedLeadsToAtRest ==
  \A id \in VideoIds : Pending(id) ~> (Status(id) \in {"ready", "failed"})

\* A message for v1 is on the topic, the record is queued and no attempt has
\* begun.
C25_Witness ==
  /\ Status("v1") = "queued"
  /\ \E m \in BagToSet(queue) : m.videoId = "v1"
  /\ work = EmptyBag
  /\ "error" \notin DOMAIN videos["v1"]
  /\ "renditions" \notin DOMAIN videos["v1"]

\* C26: two finalize notifications for the same object and record publish
\* at most one message between them: when the only two dispatcher
\* invocations so far are finalize notifications, the first has logged its
\* publish, and no delivery has taken place, the publish of the second does
\* not leave two copies of the message on the topic.
C26_ConcurrentFinalizeOnce ==
  [][\A d \in BagToSet(disp) :
       /\ d.kind = "finalize" /\ publishProcessingJob(d, TRUE)
       /\ nReq = 2 /\ nDeliv = 0
       /\ out = Response("finalize", 0,
                  "Queued processing job from storage finalize event")
       => \A m \in BagToSet(queue') :
            m.videoId = d.videoId /\ m.inputObject = d.name
            => CopiesIn(m, queue') <= 1
    ]_vars

\* C27: the set of record ids changes only by POST /videos: no step of the
\* worker, whatever the video id of its payload, brings a record into
\* existence.
C27_WorkerCreatesNoRecord ==
  [][DOMAIN videos' # DOMAIN videos
     => \E id \in VideoIds, t \in Titles, f \in Filenames, u \in Users :
          CreateVideo(id, t, f, u)
    ]_vars

\* An invocation for record id has committed and is about to answer 200.
Succeeds(id) ==
  \E w \in BagToSet(work) : w.pc = "respond200" /\ Payload(w).videoId = id

\* C28: the worker answers 200, and the message leaves the topic, only in
\* the respond step of an invocation that has merged status ready; a request
\* answered at once gets 401 or 500 and a failed attempt gets 500, the topic
\* keeping the message; and, the subscription delivering again, either the
\* record is processing infinitely often and failed infinitely often, or
\* every pending message is followed by an invocation that succeeds.
C28_AckOnlyOnReady ==
  /\ [][/\ \A w \in BagToSet(work) :
             Entered(work, work', [w EXCEPT !.pc = "respond200"])
             => /\ w.pc = "commit"
                /\ StatusIn(videos', Payload(w).videoId) = "ready"
        /\ \/ out' # out /\ out'.op = "worker" /\ out'.status = 200
           \/ (\E m \in BagToSet(queue) :
                 CopiesIn(m, queue') < CopiesIn(m, queue))
           => \E w \in BagToSet(work) :
                /\ w.pc = "respond200"
                /\ Respond200(w)
                /\ queue' = queue (-) SetToBag({Payload(w)})
        /\ \A w \in BagToSet(work) :
             Respond500(w) => out'.status = 500 /\ queue' = queue
        /\ \A w \in BagToSet(work) :
             Fails(w) => out' = out /\ queue' = queue
        /\ out' # out /\ out'.op = "worker" /\ work' = work
           => /\ out'.status \in {401, 500}
              /\ queue' = queue
              /\ videos' = videos
       ]_vars
  /\ \A id \in VideoIds :
       \/ []<>(Status(id) = "processing") /\ []<>(Status(id) = "failed")
       \/ Pending(id) ~> Succeeds(id)

\* A second attempt of the same message has failed: the record is failed,
\* the message is still on the topic, and an earlier attempt was answered 500.
C28_Witness ==
  /\ out.op = "worker" /\ out.status = 500
  /\ Pending("v1")
  /\ \E w \in BagToSet(work) :
       /\ w.pc = "respond500"
       /\ Payload(w).videoId = "v1"
       /\ Payload(w) \in BagToSet(queue)
       /\ Status("v1") = "failed"

\* C29: a message enters the topic only with the source location of its
\* record: gs://inputBucket/inputObject is the rawPath of the record the
\* message names, in the state in which the dispatcher publishes it.
C29_MessageNamesRawPath ==
  [][\A m \in BagToSet(queue') :
       Entered(queue, queue', m)
       => GsPath(m.inputBucket, m.inputObject)
            = Field(DocOf(m.videoId), "rawPath")
    ]_vars

\* C30: in every reachable state a record whose status is ready has a
\* renditions map with both 360p and 720p, and its playbackUrl and
\* processedPath are those of the 720p entry.
C30_ReadyIsComplete ==
  \A id \in DOMAIN videos :
    Status(id) = "ready"
    => LET doc == videos[id]
       IN /\ "renditions" \in DOMAIN doc
          /\ {"360p", "720p"} \subseteq DOMAIN doc.renditions
          /\ Field(doc, "playbackUrl") = doc.renditions["720p"].playbackUrl
          /\ Field(doc, "processedPath") = doc.renditions["720p"].path

\* Two deliveries for v1 with different target buckets ran interleaved, two
\* dispatcher requests having been made; one has committed and is about to
\* answer, the other has committed over it, and the record is ready with
\* the renditions of the later one.
C30_Witness ==
  /\ nDeliv = 2 /\ nReq = 2
  /\ Status("v1") = "ready"
  /\ \E w \in BagToSet(work) :
       /\ w.pc = "respond200"
       /\ Payload(w).videoId = "v1"
       /\ w.renditions # videos["v1"].renditions
       /\ DOMAIN w.renditions = Labels
====
